---- MODULE Spec2Model ----
(***************************************************************************)
(* A model of indexlib's Index (src/indexlib/index.py): the entity tree,   *)
(* the category table with its member lists, the ignore list, the real     *)
(* file system below the index root and the backing document.              *)
(*                                                                         *)
(* Python objects are modelled by identity: an entity is an object id, its *)
(* fields live in ent[id] and its children list in childs[id].  Lists are  *)
(* sequences of ids, so that "the same entity twice" and "two entities     *)
(* with the same path" are different things, as they are in the code.      *)
(***************************************************************************)
EXTENDS Integers, Sequences, FiniteSets, TLC

\* ------------------------------------------------------------------ bounds
\* Number of entity objects that may be alive at once (reachable, held by a
\* category, or referenced as a parent).
MaxEnt == 4

\* ------------------------------------------------------------------- paths
\* An absolute path is the sequence of its components.
RootPath == <<"root">>
DbFile == <<"root", ".index.json">>
PA == <<"root", "a">>
PAB == <<"root", "a", "b">>
PABC == <<"root", "a", "b", "c">>
PAF == <<"root", "a", "f">>
POut == <<"other">>

\* Every path the model knows on the file system.
FsPaths == {RootPath, DbFile, PA, PAB, PABC, PAF, POut}

\* The paths the operations are called with.
ArgPaths == {PA, PAB, PABC, RootPath, POut}

\* The values the ignore list is populated with before the first call.
IgnoreChoices == {{}, {PAB}, {PABC}}

\* ----------------------------------------------------------------- objects
\* The Index object in use.
Self == 0
\* The Index object that IndexSchema.make_object builds while loading.
Idx == MaxEnt + 1
EntIds == 1..MaxEnt
Indexes == {Self, Idx}

VARIABLES
    ent,          \* entity id -> [path, category, is_directory, parent]
    childs,       \* object id -> its children list (a sequence of ids)
    shared,       \* Idx.childs and Self.childs are the same list object
    categories,   \* Index._categories: sequence of [name, members]
    ignore_list,  \* the module-global ignore list
    fs,           \* file system: path -> "none" | "file" | "dir"
    doc,          \* content of the backing document (NoDoc when absent)
    last          \* the last call: what it was given and how it ended

vars == <<ent, childs, shared, categories, ignore_list, fs, doc, last>>

NoDoc == [categories |-> <<>>, childs |-> <<>>, present |-> FALSE]

\* ------------------------------------------------------------- pure helpers
Min(S) == CHOOSE x \in S : \A y \in S : x <= y

IsPrefix(to, path) ==
    /\ Len(to) <= Len(path)
    /\ SubSeq(path, 1, Len(to)) = to

\* is_subpath_to without its first test: a path counts as below itself.
is_subpath_to_or_equal(path, to) == IsPrefix(to, path)

\* Path.relative_to(to) succeeds iff `to` is a component-wise prefix.
is_subpath_to(path, to) ==
    IF path = to THEN FALSE ELSE IsPrefix(to, path)

Range(s) == {s[i] : i \in 1..Len(s)}

\* list.remove(x): drops the first occurrence.
RemoveFirst(s, x) ==
    LET i == Min({k \in 1..Len(s) : s[k] = x})
    IN  SubSeq(s, 1, i - 1) \o SubSeq(s, i + 1, Len(s))

RemoveAt(s, i) == SubSeq(s, 1, i - 1) \o SubSeq(s, i + 1, Len(s))

\* seq[i] of Python for a list of length n: 0-based, negative from the end.
\* 0 stands for IndexError.
PyIndex(n, i) ==
    IF 0 <= i /\ i < n THEN i + 1
    ELSE IF i < 0 /\ -n <= i THEN n + i + 1
    ELSE 0

\* ---------------------------------------------------------- entity helpers
PathOf(e, o) == IF o \in Indexes THEN RootPath ELSE e[o].path

IsDirObj(e, o) == IF o \in Indexes THEN TRUE ELSE e[o].is_directory

issub(e, d, sub) == is_subpath_to(sub, PathOf(e, d))

\* DirectoryEntity.get_root: up the parent references to an Index object.
RECURSIVE get_root(_, _)
get_root(e, o) == IF o \in Indexes THEN o ELSE get_root(e, e[o].parent)

\* The children list of c is mutated in place: seen through every alias.
SetChilds(ch, sh, c, new) ==
    IF sh /\ c \in Indexes
    THEN [ch EXCEPT ![Self] = new, ![Idx] = new]
    ELSE [ch EXCEPT ![c] = new]

\* deepest_parent returning the first containing child itself instead of that
\* child's deepest_parent: one level only.
deepest_parent_one_level(e, ch, d, sub) ==
    LET hits == {i \in 1..Len(ch[d]) :
                    IsDirObj(e, ch[d][i]) /\ issub(e, ch[d][i], sub)}
    IN  IF hits = {} THEN d ELSE ch[d][Min(hits)]

\* deepest_parent after its __check4sub passed: descend into the first child
\* directory that contains sub.
RECURSIVE deepest_parent(_, _, _, _)
deepest_parent(e, ch, d, sub) ==
    LET hits == {i \in 1..Len(ch[d]) :
                    IsDirObj(e, ch[d][i]) /\ issub(e, ch[d][i], sub)}
    IN  IF hits = {} THEN d
        ELSE deepest_parent(e, ch, ch[d][Min(hits)], sub)

\* __isregistered / __find: exact-match scan of d's own children.
ChildHits(e, ch, d, path) == {i \in 1..Len(ch[d]) : e[ch[d][i]].path = path}

isregistered(e, ch, d, path) ==
    ChildHits(e, ch, deepest_parent(e, ch, d, path), path) # {}

\* DirectoryEntity.find(sub) on d, past its __check4sub: the first child of
\* the deepest parent with that path; 0 stands for "Child wasn't found".
find(e, ch, d, path) ==
    LET parent == deepest_parent(e, ch, d, path)
        hits == ChildHits(e, ch, parent, path)
    IN  IF hits = {} THEN 0 ELSE ch[parent][Min(hits)]

\* ------------------------------------------------------------ categories
StrArg(s) == [isint |-> FALSE, name |-> s, idx |-> 0]
IntArg(i) == [isint |-> TRUE, name |-> "", idx |-> i]

CatNames == {"default", "extra"}
CatArgs == {StrArg("default"), StrArg("nosuch"), IntArg(0)}

\* Index.find_category: [found, idx]; idx is the int as given, or the
\* position of the first category of that name.
find_category(cats, a) ==
    IF a.isint
    THEN IF PyIndex(Len(cats), a.idx) # 0
         THEN [found |-> TRUE, idx |-> a.idx]
         ELSE [found |-> FALSE, idx |-> -1]
    ELSE LET hits == {i \in 1..Len(cats) : cats[i].name = a.name}
         IN  IF hits # {} THEN [found |-> TRUE, idx |-> Min(hits) - 1]
             ELSE [found |-> FALSE, idx |-> -1]

\* Category.add
CatAdd(cats, k, o) ==
    [cats EXCEPT ![k].members = Append(@, o)]

\* Category.remove: the first member whose path equals the entity's path.
\* 0 when there is none ("Member wasn't found").
CatRemoveHit(e, cats, k, path) ==
    LET hits == {i \in 1..Len(cats[k].members) :
                    e[cats[k].members[i]].path = path}
    IN  IF hits = {} THEN 0 ELSE Min(hits)

CatRemove(cats, k, i) ==
    [cats EXCEPT ![k].members = RemoveAt(@, i)]

\* --------------------------------------------------------- object lifetime
\* Objects some live reference still leads to: from Self's children and the
\* category members, through children lists and parent references.
RECURSIVE Closure(_, _, _)
Closure(e, ch, S) ==
    LET T == S \cup UNION {Range(ch[o]) : o \in S}
               \cup {e[o].parent : o \in S \ Indexes}
    IN  IF T = S THEN S ELSE Closure(e, ch, T)

Alive(e, ch, cats) ==
    Closure(e, ch, {Self} \cup UNION {Range(cats[k].members) : k \in 1..Len(cats)})

\* Unreferenced objects are dropped, as the interpreter drops them.
CollectEnt(e, ch, cats) ==
    LET A == Alive(e, ch, cats) IN [o \in (DOMAIN e) \cap A |-> e[o]]

CollectChilds(e, ch, cats) ==
    LET A == Alive(e, ch, cats) IN [o \in DOMAIN ch |-> IF o \in A THEN ch[o] ELSE <<>>]

FreeIds(e) == EntIds \ DOMAIN e

\* ------------------------------------------------------------------- heap
\* The mutable object graph an operation works on: h.e (entities), h.ch
\* (children lists), h.sh (the alias of the two Index objects' lists) and
\* h.cats (the category table).  An operation yields [res, h, id, par]:
\* how it ended, the graph it left, and the entity and parent it acted on.
Heap == [e |-> ent, ch |-> childs, sh |-> shared, cats |-> categories]

Raise(h, r) == [res |-> r, h |-> h, id |-> 0, par |-> 0]

Return(h, id, par) == [res |-> "ok", h |-> h, id |-> id, par |-> par]

NewId(h) == IF FreeIds(h.e) = {} THEN 0 ELSE Min(FreeIds(h.e))

\* PathEntityProtocol.__init__ / set_parent
NewEntity(path, cat, isdir, parent) ==
    [path |-> path, category |-> cat, is_directory |-> isdir, parent |-> parent]

set_parent(e, S, parent) ==
    [o \in DOMAIN e |-> IF o \in S THEN [e[o] EXCEPT !.parent = parent] ELSE e[o]]

\* ---------------------------------------------------------------- register
\* DirectoryEntity.__register(sub) on `parent`, sub being a new object.
private_register(h, parent, path, cat, isdir) ==
    IF ~issub(h.e, parent, path) THEN Raise(h, "Containment")
    ELSE IF ChildHits(h.e, h.ch, parent, path) # {}
    THEN Raise(h, "AlreadyRegistered")
    ELSE LET new == NewId(h)
             e1 == [o \in DOMAIN h.e \cup {new} |->
                       IF o = new THEN NewEntity(path, cat, isdir, parent)
                       ELSE h.e[o]]
             ch1 == SetChilds(h.ch, h.sh, parent, Append(h.ch[parent], new))
             k == PyIndex(Len(h.cats), cat)
         IN  IF k = 0
             THEN [res |-> "IndexError", id |-> new, par |-> parent,
                   h |-> [h EXCEPT !.e = e1, !.ch = ch1]]
             ELSE Return([h EXCEPT !.e = e1, !.ch = ch1,
                                   !.cats = CatAdd(h.cats, k, new)],
                         new, parent)

\* DirectoryEntity.register(sub) on d.
dir_register(h, d, path, cat, isdir) ==
    IF ~issub(h.e, d, path) THEN Raise(h, "Containment")
    ELSE IF isregistered(h.e, h.ch, d, path) THEN Raise(h, "AlreadyRegistered")
    ELSE private_register(h, deepest_parent(h.e, h.ch, d, path), path, cat, isdir)

\* Index.register(path, _category, is_directory); isd is "true", "false" or
\* "none", and a path of unknown type is probed on the file system.
TypeFlags == {"true", "false", "none"}

index_register(h, files, path, a, isd) ==
    LET fc == find_category(h.cats, a)
    IN  IF ~fc.found THEN Raise(h, "CategoryNotFound")
        ELSE IF isd = "none" /\ files[path] = "none" THEN Raise(h, "AmbiguousType")
        ELSE dir_register(h, Self, path, fc.idx,
                          IF isd = "none" THEN files[path] = "dir" ELSE isd = "true")

\* -------------------------------------------------------------- unregister
\* DirectoryEntity.__unregister(sub, recursive) on `parent`.
private_unregister(h, parent, path, recursive) ==
    IF ~issub(h.e, parent, path) THEN Raise(h, "Containment")
    ELSE IF path \in ignore_list THEN Return(h, 0, parent)
    ELSE LET hits == ChildHits(h.e, h.ch, deepest_parent(h.e, h.ch, parent, path), path)
         IN
         IF hits = {} THEN Raise(h, "NotFound")
         ELSE
         LET el == h.ch[deepest_parent(h.e, h.ch, parent, path)][Min(hits)]
             collapse == h.e[el].is_directory /\ ~recursive
             e1 == IF collapse THEN set_parent(h.e, Range(h.ch[el]), parent) ELSE h.e
             ch1 == IF collapse
                    THEN SetChilds(h.ch, h.sh, parent, h.ch[parent] \o h.ch[el])
                    ELSE h.ch
             h1 == [h EXCEPT !.e = e1, !.ch = ch1]
             k == PyIndex(Len(h.cats), h.e[el].category)
             i == IF k = 0 THEN 0 ELSE CatRemoveHit(h.e, h.cats, k, path)
         IN  IF k = 0 THEN [res |-> "IndexError", h |-> h1, id |-> el, par |-> parent]
             ELSE IF i = 0
             THEN [res |-> "MemberNotFound", h |-> h1, id |-> el, par |-> parent]
             ELSE Return([h1 EXCEPT !.cats = CatRemove(h.cats, k, i),
                                    !.ch = SetChilds(ch1, h.sh, parent,
                                                     RemoveFirst(ch1[parent], el))],
                         el, parent)

\* DirectoryEntity.unregister(sub, recursive) on d.
dir_unregister(h, d, path, recursive) ==
    IF ~issub(h.e, d, path) THEN Raise(h, "Containment")
    ELSE private_unregister(h, deepest_parent(h.e, h.ch, d, path), path, recursive)

\* Index.register_category(category_name)
register_category(h, name) ==
    IF find_category(h.cats, StrArg(name)).found THEN Raise(h, "DuplicateCategory")
    ELSE Return([h EXCEPT !.cats = Append(@, [name |-> name, members |-> <<>>])], 0, 0)

\* PathEntityProtocol.unregister_self(recursive) on entity o: through the
\* parent reference, whatever object that is.
unregister_self(h, o, recursive) ==
    IF h.e[o].path \in ignore_list THEN Return(h, 0, h.e[o].parent)
    ELSE dir_unregister(h, h.e[o].parent, h.e[o].path, recursive)

\* Category.unregister_members(recursive) on the category at position k.  The
\* reversed() iterator stands at 0-based index i and stops when i is no index
\* of the list any more; members.remove(instance) raises ValueError when the
\* instance has left the list already.  What was done before an error stays.
RECURSIVE unregister_members(_, _, _, _)
unregister_members(h, k, i, recursive) ==
    IF i < 0 \/ i >= Len(h.cats[k].members) THEN Return(h, 0, 0)
    ELSE LET instance == h.cats[k].members[i + 1]
             r == unregister_self(h, instance, recursive)
         IN  IF r.res # "ok" THEN r
             ELSE IF instance \notin Range(r.h.cats[k].members)
             THEN Raise(r.h, "ValueError")
             ELSE unregister_members(
                      [r.h EXCEPT !.cats[k].members = RemoveFirst(@, instance)],
                      k, i - 1, recursive)

\* Index.unregister_category(_category, unregister_members, recursive)
unregister_category(h, a, unreg, recursive) ==
    LET fc == find_category(h.cats, a)
        k == PyIndex(Len(h.cats), fc.idx)
    IN  IF ~fc.found THEN Raise(h, "CategoryNotFound")
        ELSE IF Len(h.cats[k].members) > 0 /\ ~unreg
        THEN Raise(h, "NonEmptyCategory")
        ELSE LET r == IF Len(h.cats[k].members) > 0
                      THEN unregister_members(h, k, Len(h.cats[k].members) - 1,
                                              recursive)
                      ELSE Return(h, 0, 0)
             IN  IF r.res # "ok" THEN r
                 ELSE Return([r.h EXCEPT !.cats = RemoveAt(@, k)], 0, 0)

\* ------------------------------------------------------------- file system
\* Path.iterdir(): the entries directly in a folder.
iterdir(files, folder) ==
    {p \in FsPaths : /\ files[p] # "none"
                     /\ Len(p) = Len(folder) + 1
                     /\ IsPrefix(folder, p)}

\* rm_contents(folder): the outcomes [res, fs] it can end with.  The files of
\* the folder are unlinked first, those in the ignore list excepted; then each
\* sub-folder is emptied and removed, in the order iterdir() happened to give
\* them, which no rule fixes.  rmdir() of a folder that is not empty raises.
RECURSIVE rm_contents(_, _)
RECURSIVE rm_folders(_, _)
rm_folders(files, folders) ==
    IF folders = {} THEN {[res |-> "ok", fs |-> files]}
    ELSE UNION {
           UNION {
             IF o.res # "ok" THEN {o}
             ELSE IF iterdir(o.fs, fldr) # {}
             THEN {[res |-> "OSError", fs |-> o.fs]}
             ELSE rm_folders([o.fs EXCEPT ![fldr] = "none"], folders \ {fldr})
             : o \in rm_contents(files, fldr)}
           : fldr \in folders}

rm_contents(files, folder) ==
    IF files[folder] # "dir" THEN {[res |-> "NotADirectory", fs |-> files]}
    ELSE LET items == iterdir(files, folder)
             folders == {i \in items : files[i] = "dir"}
             unlinked == [p \in FsPaths |->
                            IF p \in items \ folders /\ p \notin ignore_list
                            THEN "none" ELSE files[p]]
         IN  rm_folders(unlinked, folders)

\* ---------------------------------------------------------- unregister_all
\* DirectoryEntity.unregister_all on d: children in list order, a child
\* directory's own children first; the loop stops at the first error with what
\* it has done so far.  (__temp_root caches get_root(), which is an Index
\* object either way, and both Index objects hold the same category table.)
RECURSIVE unregister_all(_, _)
RECURSIVE unregister_all_loop(_, _, _, _)
unregister_all_loop(h, d, i, savelist) ==
    IF i > Len(h.ch[d])
    THEN Return([h EXCEPT !.ch[d] = savelist,
                          !.sh = IF d = Self THEN FALSE ELSE @], 0, d)
    ELSE LET child == h.ch[d][i]
             r1 == IF h.e[child].is_directory THEN unregister_all(h, child)
                   ELSE Return(h, 0, d)
             save1 == IF h.e[child].path \in ignore_list
                      THEN Append(savelist, child) ELSE savelist
             k == PyIndex(Len(r1.h.cats), h.e[child].category)
             j == IF k = 0 THEN 0
                  ELSE CatRemoveHit(r1.h.e, r1.h.cats, k, h.e[child].path)
         IN  IF r1.res # "ok" THEN r1
             ELSE IF k = 0 THEN Raise(r1.h, "IndexError")
             ELSE IF j = 0 THEN Raise(r1.h, "MemberNotFound")
             ELSE unregister_all_loop([r1.h EXCEPT !.cats = CatRemove(@, k, j)],
                                      d, i + 1, save1)

unregister_all(h, d) == unregister_all_loop(h, d, 1, <<>>)

\* ------------------------------------------------------------------ delete
\* A delete operation works on the object graph and on the file system, and
\* what rm_contents leaves depends on the order iterdir() gives: it yields the
\* set of outcomes [res, h, fs] it can end with.
Out(res, h, files) == [res |-> res, h |-> h, fs |-> files]

\* DirectoryEntity.__delete_all(unregister) on d.
delete_all(h, files, d, unregister) ==
    {IF o.res # "ok" THEN Out(o.res, h, o.fs)
     ELSE IF unregister
     THEN LET r == unregister_all(h, d) IN Out(r.res, r.h, o.fs)
     ELSE Out("ok", h, o.fs)
     : o \in rm_contents(files, PathOf(h.e, d))}

\* What follows the removal of the target in both delete_self methods.
unregister_after(h, files, o, unregister, recursive) ==
    IF unregister
    THEN LET r == unregister_self(h, o, recursive) IN {Out(r.res, r.h, files)}
    ELSE {Out("ok", h, files)}

\* FileEntity.delete_self and DirectoryEntity.delete_self on entity o.
\* unlink() of a directory and rmdir() of a directory that is not empty raise
\* OSError.
delete_self(h, files, o, unregister, recursive) ==
    LET path == h.e[o].path
    IN  IF path \in ignore_list THEN {Out("ok", h, files)}
        ELSE IF ~h.e[o].is_directory
        THEN IF files[path] = "dir" THEN {Out("OSError", h, files)}
             ELSE unregister_after(h, [files EXCEPT ![path] = "none"], o,
                                   unregister, recursive)
        ELSE UNION {
               IF a.res # "ok" THEN {a}
               ELSE IF a.fs[path] # "none" /\ iterdir(a.fs, path) # {}
               THEN {Out("OSError", a.h, a.fs)}
               ELSE unregister_after(a.h, [a.fs EXCEPT ![path] = "none"], o,
                                     unregister, recursive)
               : a \in delete_all(h, files, o, unregister)}

\* DirectoryEntity.__delete_registered(unregister) on d: delete_self() of
\* every child that is not in the ignore list, in list order.
RECURSIVE delete_registered_loop(_, _, _, _)
delete_registered_loop(h, files, d, i) ==
    IF i > Len(h.ch[d]) THEN {Out("ok", h, files)}
    ELSE IF h.e[h.ch[d][i]].path \in ignore_list
    THEN delete_registered_loop(h, files, d, i + 1)
    ELSE UNION {
           IF a.res # "ok" THEN {a}
           ELSE delete_registered_loop(a.h, a.fs, d, i + 1)
           : a \in delete_self(h, files, h.ch[d][i], FALSE, TRUE)}

delete_registered(h, files, d, unregister) ==
    UNION {
      IF a.res # "ok" \/ ~unregister THEN {a}
      ELSE LET r == unregister_all(a.h, d) IN {Out(r.res, r.h, a.fs)}
      : a \in delete_registered_loop(h, files, d, 1)}

\* DirectoryEntity.__delete_unregistered(deep) on d.  cont is the listing of
\* the directory taken at the start; the first loop takes the path of every
\* child directory out of it (ValueError when it is not there), after the
\* child's own purge when deep; the second loop removes what is left and is
\* not registered, in the order of the listing, which no rule fixes.
RECURSIVE delete_unregistered(_, _, _, _)
RECURSIVE delete_unregistered_childs(_, _, _, _, _, _)
RECURSIVE delete_unregistered_cont(_, _, _, _)
delete_unregistered_childs(h, files, d, deep, i, cont) ==
    IF i > Len(h.ch[d]) THEN {[res |-> "ok", fs |-> files, cont |-> cont]}
    ELSE IF ~h.e[h.ch[d][i]].is_directory
    THEN delete_unregistered_childs(h, files, d, deep, i + 1, cont)
    ELSE UNION {
           IF a.res # "ok" THEN {[res |-> a.res, fs |-> a.fs, cont |-> cont]}
           ELSE IF h.e[h.ch[d][i]].path \notin cont
           THEN {[res |-> "ValueError", fs |-> a.fs, cont |-> cont]}
           ELSE delete_unregistered_childs(h, a.fs, d, deep, i + 1,
                                           cont \ {h.e[h.ch[d][i]].path})
           : a \in IF deep THEN delete_unregistered(h, files, h.ch[d][i], TRUE)
                   ELSE {Out("ok", h, files)}}

delete_unregistered_cont(h, files, d, cont) ==
    IF cont = {} THEN {Out("ok", h, files)}
    ELSE UNION {
           IF isregistered(h.e, h.ch, d, p)
           THEN delete_unregistered_cont(h, files, d, cont \ {p})
           ELSE IF files[p] = "dir"
           THEN UNION {
                  IF o.res # "ok" THEN {Out(o.res, h, o.fs)}
                  ELSE IF iterdir(o.fs, p) # {} THEN {Out("OSError", h, o.fs)}
                  ELSE delete_unregistered_cont(h, [o.fs EXCEPT ![p] = "none"],
                                                d, cont \ {p})
                  : o \in rm_contents(files, p)}
           ELSE IF files[p] = "none" THEN {Out("FileNotFound", h, files)}
           ELSE delete_unregistered_cont(h, [files EXCEPT ![p] = "none"],
                                         d, cont \ {p})
           : p \in cont}

delete_unregistered(h, files, d, deep) ==
    IF files[PathOf(h.e, d)] = "none" THEN {Out("FileNotFound", h, files)}
    ELSE IF files[PathOf(h.e, d)] = "file" THEN {Out("NotADirectory", h, files)}
    ELSE UNION {
           IF c.res # "ok" THEN {Out(c.res, h, c.fs)}
           ELSE delete_unregistered_cont(h, c.fs, d, c.cont)
           : c \in delete_unregistered_childs(h, files, d, deep, 1,
                                             iterdir(files, PathOf(h.e, d)))}

\* Category.delete(unregister, clear, recursive) on the category at position
\* k.  The list iterator stands at 0-based index i of the member list, which
\* unregister_self shortens under it.
RECURSIVE category_delete_loop(_, _, _, _, _, _)
category_delete_loop(h, files, k, i, unregister, recursive) ==
    IF i >= Len(h.cats[k].members) THEN {Out("ok", h, files)}
    ELSE LET mem == h.cats[k].members[i + 1]
         IN  UNION {
               IF a.res # "ok" THEN {a}
               ELSE UNION {
                      IF b.res # "ok" THEN {b}
                      ELSE category_delete_loop(b.h, b.fs, k, i + 1,
                                                unregister, recursive)
                      : b \in unregister_after(a.h, a.fs, mem, unregister,
                                               recursive)}
               : a \in delete_self(h, files, mem, FALSE, TRUE)}

category_delete(h, files, k, unregister, clear, recursive) ==
    {IF a.res = "ok" /\ clear
     THEN Out("ok", [a.h EXCEPT !.cats[k].members = <<>>], a.fs)
     ELSE a
     : a \in category_delete_loop(h, files, k, 0, unregister, recursive)}

\* Index.delete_category(category, unregister, clear, recursive)
delete_category(h, files, a, unregister, clear, recursive) ==
    LET fc == find_category(h.cats, a)
    IN  IF ~fc.found THEN {Out("CategoryNotFound", h, files)}
        ELSE category_delete(h, files, PyIndex(Len(h.cats), fc.idx),
                             unregister, clear, recursive)

\* ------------------------------------------------------------- persistence
\* DirectoryEntity.walk as written: every child, a child directory a second
\* time, then what the child directory's walk yields.
RECURSIVE walk(_, _, _)
RECURSIVE walk_list(_, _, _)
walk_list(e, ch, list) ==
    IF list = <<>> THEN <<>>
    ELSE LET obj == Head(list)
         IN  <<obj>>
             \o (IF IsDirObj(e, obj) THEN <<obj>> \o walk(e, ch, obj) ELSE <<>>)
             \o walk_list(e, ch, Tail(list))

walk(e, ch, d) == walk_list(e, ch, ch[d])

\* IndexSchema.dump: the tagged records of the tree in document order.  The
\* nesting of the JSON document is kept as `up`, the position of the record
\* whose "childs" holds this one (0: the document's own "childs").
RECURSIVE dump_childs(_, _, _, _, _)
dump_childs(e, ch, list, up, base) ==
    IF list = <<>> THEN <<>>
    ELSE LET o == Head(list)
             node == [type |-> IF e[o].is_directory THEN "DirectoryEntity"
                               ELSE "FileEntity",
                      path |-> e[o].path, category |-> e[o].category, up |-> up]
             sub == IF e[o].is_directory
                    THEN dump_childs(e, ch, ch[o], base + 1, base + 1)
                    ELSE <<>>
         IN  <<node>> \o sub
             \o dump_childs(e, ch, Tail(list), up, base + 1 + Len(sub))

dump(h) ==
    [present |-> TRUE,
     categories |-> [k \in 1..Len(h.cats) |-> h.cats[k].name],
     childs |-> dump_childs(h.e, h.ch, h.ch[Self], 0, 0)]

\* The positions, in order, of the records held by record `up`.
RECURSIVE records_of(_, _, _)
records_of(nodes, up, i) ==
    IF i > Len(nodes) THEN <<>>
    ELSE (IF nodes[i].up = up THEN <<i>> ELSE <<>>) \o records_of(nodes, up, i + 1)

\* Index.commit: the document is rewritten from the Index in use.
commit(h) == dump(h)

\* Category.add for each object walk() yields, in order; "IndexError" when a
\* category field is no index of the table.
RECURSIVE add_walked(_, _, _)
add_walked(e, cats, w) ==
    IF w = <<>> THEN [res |-> "ok", cats |-> cats]
    ELSE LET k == PyIndex(Len(cats), e[Head(w)].category)
         IN  IF k = 0 THEN [res |-> "IndexError", cats |-> cats]
             ELSE add_walked(e, CatAdd(cats, k, Head(w)), Tail(w))

\* Index.__from_db / IndexSchema.make_object: the records become new entity
\* objects (an entity's id is its record's position), adoption() makes each
\* the child of the object holding it, where the document's own childs are
\* held by the Index object make_object builds; the members are rebuilt from
\* walk().  The Index in use then takes over that object's children list and
\* category table.
from_db(d, files) ==
    LET nodes == d.childs
        n == Len(nodes)
        e1 == [i \in 1..n |->
                 NewEntity(nodes[i].path, nodes[i].category,
                           nodes[i].type = "DirectoryEntity",
                           IF nodes[i].up = 0 THEN Idx ELSE nodes[i].up)]
        top == records_of(nodes, 0, 1)
        ch1 == [o \in 0..(MaxEnt + 1) |->
                  IF o \in Indexes THEN top
                  ELSE IF o <= n THEN records_of(nodes, o, 1) ELSE <<>>]
        cats0 == [k \in 1..Len(d.categories) |->
                    [name |-> d.categories[k], members |-> <<>>]]
        added == add_walked(e1, cats0, walk(e1, ch1, Idx))
        h1 == [e |-> e1, ch |-> ch1, sh |-> TRUE, cats |-> added.cats]
    IN  IF \E i \in 1..n : files[nodes[i].path] = "none"
        THEN [res |-> "FileNotFound", h |-> Heap, id |-> 0, par |-> 0]
        ELSE IF added.res # "ok"
        THEN [res |-> added.res, h |-> Heap, id |-> 0, par |-> 0]
        ELSE Return(h1, 0, Self)

\* The fields Index.__init__ gives the Index object i itself:
\* super().__init__(cwd, -1, self, "Root").
index_fields(i) == NewEntity(RootPath, -1, TRUE, i)

\* An initialisation that creates the backing document's entity as a child
\* but leaves it out of the category.
fresh_index_unlisted ==
    Return([e |-> (1 :> NewEntity(DbFile, 0, FALSE, Self)),
            ch |-> [o \in 0..(MaxEnt + 1) |-> IF o = Self THEN <<1>> ELSE <<>>],
            sh |-> FALSE,
            cats |-> <<[name |-> "default", members |-> <<>>]>>], 1, Self)

\* Index.__init__ with no backing document.
fresh_index ==
    Return([e |-> (1 :> NewEntity(DbFile, 0, FALSE, Self)),
            ch |-> [o \in 0..(MaxEnt + 1) |-> IF o = Self THEN <<1>> ELSE <<>>],
            sh |-> FALSE,
            cats |-> <<[name |-> "default", members |-> <<1>>]>>], 1, Self)

\* The entities below d through children lists, at any depth.
RECURSIVE Below(_, _)
Below(ch, d) == Range(ch[d]) \cup UNION {Below(ch, c) : c \in Range(ch[d])}

\* The entities reachable from the root in use.
Reach == Below(childs, Self)

\* The directory objects of the tree: the root in use and the reachable
\* directory entities.
TreeDirs == {Self} \cup {o \in Reach : ent[o].is_directory}

\* ----------------------------------------------------------------- actions
\* What `last` records of a call: a call that returned, with what it was
\* given and the entity and parent it acted on; a call that raised, with the
\* error alone.
Call(op, path, flag, r) ==
    IF r.res = "ok"
    THEN [op |-> op, path |-> path, flag |-> flag, res |-> r.res,
          id |-> r.id, par |-> r.par]
    ELSE [op |-> op, path |-> <<>>, flag |-> "none", res |-> r.res,
          id |-> r.id, par |-> r.par]

\* The graph a call left becomes the state; dead objects are dropped.
Becomes(r) ==
    IF r.h = Heap THEN UNCHANGED <<ent, childs, shared, categories>>
    ELSE /\ ent' = CollectEnt(r.h.e, r.h.ch, r.h.cats)
         /\ childs' = CollectChilds(r.h.e, r.h.ch, r.h.cats)
         /\ shared' = (r.h.sh /\ Idx \in Alive(r.h.e, r.h.ch, r.h.cats))
         /\ categories' = r.h.cats

Register(path, a, isd) ==
    LET r == index_register(Heap, fs, path, a, isd)
    IN  /\ r.res = "ok" => FreeIds(ent) # {}
        /\ Becomes(r)
        /\ last' = Call("register", path, "none", r)
        /\ UNCHANGED <<ignore_list, fs, doc>>

\* An unregister that also removes the target from the file system.
UnregisterAndDelete(path, recursive) ==
    LET r == dir_unregister(Heap, Self, path, recursive)
    IN  /\ Becomes(r)
        /\ last' = Call("unregister", path, IF recursive THEN "true" ELSE "false", r)
        /\ fs' = [fs EXCEPT ![path] = "none"]
        /\ UNCHANGED <<ignore_list, doc>>

Unregister(path, recursive) ==
    LET r == dir_unregister(Heap, Self, path, recursive)
    IN  /\ Becomes(r)
        /\ last' = Call("unregister", path, IF recursive THEN "true" ELSE "false", r)
        /\ UNCHANGED <<ignore_list, fs, doc>>

RegisterCategory(name) ==
    LET r == register_category(Heap, name)
    IN  /\ Becomes(r)
        /\ last' = Call("register_category", <<name>>, "none", r)
        /\ UNCHANGED <<ignore_list, fs, doc>>

UnregisterCategory(a, unreg, recursive) ==
    LET r == unregister_category(Heap, a, unreg, recursive)
    IN  /\ Becomes(r)
        /\ last' = Call("unregister_category", <<a.name>>,
                        IF unreg THEN "true" ELSE "false", r)
        /\ UNCHANGED <<ignore_list, fs, doc>>

UnregisterAll(d) ==
    LET r == unregister_all(Heap, d)
    IN  /\ Becomes(r)
        /\ last' = [Call("unregister_all", PathOf(ent, d), "none", r) EXCEPT !.par = d]
        /\ UNCHANGED <<ignore_list, fs, doc>>

\* DirectoryEntity.__delete_all(unregister) on d, the policy ALL of
\* delete_specific: rm_contents of the directory's path, then unregister_all.
DeleteAll(d, unregister) ==
    \E o \in rm_contents(fs, PathOf(ent, d)) :
        LET r == IF o.res = "ok" /\ unregister THEN unregister_all(Heap, d)
                 ELSE [res |-> o.res, h |-> Heap, id |-> 0, par |-> d]
        IN  /\ fs' = o.fs
            /\ doc' = IF o.fs[DbFile] = "none" THEN NoDoc ELSE doc
            /\ Becomes(r)
            /\ last' = [op |-> "delete_all", path |-> PathOf(ent, d),
                        flag |-> IF unregister THEN "true" ELSE "false",
                        res |-> r.res, id |-> 0, par |-> d]
            /\ UNCHANGED ignore_list

\* What the delete actions share: one of the outcomes becomes the state; the
\* backing document goes with its file.
Deleted(a) ==
    /\ fs' = a.fs
    /\ doc' = IF a.fs[DbFile] = "none" THEN NoDoc ELSE doc
    /\ Becomes([res |-> a.res, h |-> a.h, id |-> 0, par |-> 0])
    /\ UNCHANGED ignore_list

Flag(b) == IF b THEN "true" ELSE "false"

\* Index.delete(sub, unregister, recursive): find(sub), then delete_self.
Delete(path, unregister, recursive) ==
    LET hits == IF issub(ent, Self, path)
                THEN ChildHits(ent, childs, deepest_parent(ent, childs, Self, path), path)
                ELSE {}
        child == IF hits = {} THEN 0
                 ELSE childs[deepest_parent(ent, childs, Self, path)][Min(hits)]
    IN  \E a \in IF ~issub(ent, Self, path) THEN {Out("Containment", Heap, fs)}
                 ELSE IF hits = {} THEN {Out("NotFound", Heap, fs)}
                 ELSE delete_self(Heap, fs, child, unregister, recursive) :
            /\ Deleted(a)
            /\ last' = [op |-> "delete", path |-> path, flag |-> Flag(unregister),
                        res |-> a.res, id |-> child, par |-> Self]

\* delete_specific(RE.REGISTERED, unregister) on d.
DeleteRegistered(d, unregister) ==
    \E a \in delete_registered(Heap, fs, d, unregister) :
        /\ Deleted(a)
        /\ last' = [op |-> "delete_registered", path |-> PathOf(ent, d),
                    flag |-> Flag(unregister), res |-> a.res, id |-> 0, par |-> d]

\* delete_specific(RE.UNREGISTERED) and delete_specific(RE.UNREGISTERED_DEEP)
\* on d.
DeleteUnregistered(d, deep) ==
    \E a \in delete_unregistered(Heap, fs, d, deep) :
        /\ Deleted(a)
        /\ last' = [op |-> "delete_unregistered", path |-> PathOf(ent, d),
                    flag |-> Flag(deep), res |-> a.res, id |-> 0, par |-> d]

\* Index.delete_category(category, unregister, clear, recursive); `last`
\* keeps the position of the category in id.
DeleteCategory(c, unregister, clear, recursive) ==
    \E a \in delete_category(Heap, fs, c, unregister, clear, recursive) :
        /\ Deleted(a)
        /\ last' = [op |-> "delete_category", path |-> <<c.name>>,
                    flag |-> Flag(unregister), res |-> a.res,
                    id |-> PyIndex(Len(categories), find_category(categories, c).idx),
                    par |-> Self]

\* Index.commit: open('w') creates the backing file.
CommitIndex ==
    /\ doc' = commit(Heap)
    /\ fs' = [fs EXCEPT ![DbFile] = "file"]
    /\ last' = [op |-> "commit", path |-> DbFile, flag |-> "none",
                res |-> "ok", id |-> 0, par |-> Self]
    /\ UNCHANGED <<ent, childs, shared, categories, ignore_list>>

\* Index(cwd): a new Index object, loaded from the backing document when the
\* file exists and initialised afresh when it does not.
IndexInit ==
    LET r == IF fs[DbFile] # "none" THEN from_db(doc, fs) ELSE fresh_index
    IN  /\ Len(doc.childs) <= MaxEnt
        /\ Becomes(r)
        /\ last' = Call(IF fs[DbFile] # "none" THEN "load" ELSE "init",
                        RootPath, "none", r)
        /\ UNCHANGED <<ignore_list, fs, doc>>

\* -------------------------------------------------------------------- main
\* The namespace parse_args() gives main: the sub-command as it was typed
\* (argparse stores the alias that was used in `kind`), the positionals, and
\* the options with their defaults (nr is store_false: True unless -nr).
NoArgs ==
    [command |-> "none", kind |-> "none", path |-> <<>>, name |-> "",
     category |-> "default", type |-> "none", wm |-> FALSE, nr |-> TRUE,
     unregister |-> FALSE, clear |-> FALSE, deep |-> FALSE]

CliPaths == {PA, PAB}

CliArgs ==
    {[NoArgs EXCEPT !.command = "register", !.kind = k, !.path = p] :
        k \in {"directory", "dir", "folder", "fldr", "file"}, p \in CliPaths}
    \cup {[NoArgs EXCEPT !.command = "register", !.kind = "path", !.path = p,
                         !.type = t] :
            p \in CliPaths, t \in {"none", "directory", "file"}}
    \cup {[NoArgs EXCEPT !.command = "register", !.kind = "category",
                         !.name = "extra"]}
    \cup {[NoArgs EXCEPT !.command = "unregister", !.kind = "category",
                         !.name = n, !.wm = w, !.nr = r] :
            n \in CatNames, w \in BOOLEAN, r \in BOOLEAN}
    \cup {[NoArgs EXCEPT !.command = "unregister", !.kind = "path", !.path = p,
                         !.nr = r] :
            p \in CliPaths, r \in BOOLEAN}
    \cup {[NoArgs EXCEPT !.command = "delete", !.kind = "category",
                         !.name = "default", !.unregister = u, !.clear = c,
                         !.nr = r] :
            u \in BOOLEAN, c \in BOOLEAN, r \in BOOLEAN}
    \cup {[NoArgs EXCEPT !.command = "delete", !.kind = "path", !.path = p,
                         !.unregister = u, !.nr = r] :
            p \in CliPaths, u \in BOOLEAN, r \in BOOLEAN}
    \cup {[NoArgs EXCEPT !.command = "delete", !.kind = "registered",
                         !.unregister = u] : u \in BOOLEAN}
    \cup {[NoArgs EXCEPT !.command = "delete", !.kind = "unregistered",
                         !.deep = d] : d \in BOOLEAN}
    \cup {[NoArgs EXCEPT !.command = "delete", !.kind = "all"]}

\* A call of a core operation: the operation, its path and name arguments,
\* the is_directory argument ("true", "false", "none") and up to three flags
\* in the order of the operation's parameters.
Invoke(op, path, name, isd, b1, b2, b3) ==
    [res |-> "ok", op |-> op, path |-> path, name |-> name, isd |-> isd,
     b1 |-> b1, b2 |-> b2, b3 |-> b3]

\* main raising res before any core operation is called.
Fails(res) == [Invoke("none", <<>>, "", "none", FALSE, FALSE, FALSE) EXCEPT !.res = res]

\* The dispatch of main: the call it makes for a namespace.
main_call(args) ==
    IF args.command = "register"
    THEN IF args.kind = "category"
         THEN Invoke("register_category", <<>>, args.name, "none", FALSE, FALSE, FALSE)
         ELSE IF args.kind = "directory" \/ args.kind = "dir"
         THEN Invoke("register", args.path, args.category, "true", FALSE, FALSE, FALSE)
         ELSE IF args.kind = "file"
         THEN Invoke("register", args.path, args.category, "false", FALSE, FALSE, FALSE)
         ELSE IF args.kind = "path"
         THEN Invoke("register", args.path, args.category,
                     IF args.type # "file" THEN "true" ELSE "false",
                     FALSE, FALSE, FALSE)
         ELSE Fails("ValueError")
    ELSE IF args.command = "unregister"
    THEN IF args.kind = "category"
         THEN Invoke("unregister_category", <<>>, args.name, "none",
                     args.wm, args.nr, FALSE)
         ELSE IF args.kind = "path"
         THEN Fails("AttributeError")
         ELSE Fails("ValueError")
    ELSE IF args.command = "delete"
    THEN IF args.kind = "category"
         THEN Invoke("delete_category", <<>>, args.name, "none",
                     args.unregister, args.clear, args.nr)
         ELSE IF args.kind = "path"
         THEN Invoke("delete", args.path, "", "none", args.unregister, args.nr, FALSE)
         ELSE IF args.kind = "registered"
         THEN Invoke("delete_registered", <<>>, "", "none", args.unregister, FALSE, FALSE)
         ELSE IF args.kind = "unregistered"
         THEN Invoke("delete_unregistered", <<>>, "", "none", args.deep, FALSE, FALSE)
         ELSE IF args.kind = "all"
         THEN Invoke("delete_all", <<>>, "", "none", FALSE, FALSE, FALSE)
         ELSE Fails("ValueError")
    ELSE Invoke("nothing", <<>>, "", "none", FALSE, FALSE, FALSE)

\* Index.delete(sub, unregister, recursive) on the Index in use.
index_delete(h, files, path, unregister, recursive) ==
    IF ~issub(h.e, Self, path) THEN {Out("Containment", h, files)}
    ELSE IF find(h.e, h.ch, Self, path) = 0 THEN {Out("NotFound", h, files)}
    ELSE delete_self(h, files, find(h.e, h.ch, Self, path), unregister, recursive)

\* The call main dispatched to, made on the Index of this run.
main_exec(h, files, c) ==
    IF c.op = "register_category"
    THEN LET r == register_category(h, c.name) IN {Out(r.res, r.h, files)}
    ELSE IF c.op = "register"
    THEN LET r == index_register(h, files, c.path, StrArg(c.name), c.isd)
         IN  {Out(r.res, r.h, files)}
    ELSE IF c.op = "unregister_category"
    THEN LET r == unregister_category(h, StrArg(c.name), c.b1, c.b2)
         IN  {Out(r.res, r.h, files)}
    ELSE IF c.op = "delete_category"
    THEN delete_category(h, files, StrArg(c.name), c.b1, c.b2, c.b3)
    ELSE IF c.op = "delete"
    THEN index_delete(h, files, c.path, c.b1, c.b2)
    ELSE IF c.op = "delete_registered"
    THEN delete_registered(h, files, Self, c.b1)
    ELSE IF c.op = "delete_unregistered"
    THEN delete_unregistered(h, files, Self, c.b1)
    ELSE IF c.op = "delete_all"
    THEN delete_all(h, files, Self, c.b1)
    ELSE {Out("ok", h, files)}

\* One run of main: Index() loads the backing document or initialises afresh,
\* the command is dispatched, and index.commit() follows when it returned.
\* An error at any point ends the run there.  `last` keeps the namespace and
\* the operation that was called.
Main(args) ==
    LET boot == IF fs[DbFile] # "none" THEN from_db(doc, fs) ELSE fresh_index
        c == main_call(args)
    IN  /\ fs[DbFile] # "none" => Len(doc.childs) < MaxEnt
        /\ \E a \in IF boot.res # "ok" THEN {Out(boot.res, Heap, fs)}
                    ELSE IF c.res # "ok" THEN {Out(c.res, boot.h, fs)}
                    ELSE main_exec(boot.h, fs, c) :
              /\ Becomes([res |-> a.res, h |-> a.h, id |-> 0, par |-> 0])
              /\ IF a.res = "ok" /\ c.op # "nothing"
                 THEN /\ doc' = commit(a.h)
                      /\ fs' = [a.fs EXCEPT ![DbFile] = "file"]
                 ELSE /\ doc' = IF a.fs[DbFile] = "none" THEN NoDoc ELSE doc
                      /\ fs' = a.fs
              /\ last' = [op |-> "main", path |-> args.path, flag |-> c.op,
                          res |-> a.res, id |-> 0, par |-> Self, args |-> args]
              /\ UNCHANGED ignore_list

\* -------------------------------------------------------------------- init
\* The file system the index is created on.
InitFs ==
    [p \in FsPaths |->
        IF p \in {RootPath, PA, PAB} THEN "dir"
        ELSE IF p \in {PABC, PAF} THEN "file"
        ELSE "none"]

\* Index.__init__ with no backing document: category 'default' and the
\* backing document's own file entity registered in it.
Init ==
    /\ ignore_list \in IgnoreChoices
    /\ fs = InitFs
    /\ doc = NoDoc
    /\ shared = fresh_index.h.sh
    /\ ent = fresh_index.h.e
    /\ childs = fresh_index.h.ch
    /\ categories = fresh_index.h.cats
    /\ last = [op |-> "init", path |-> RootPath, flag |-> "none",
               res |-> "ok", id |-> 1, par |-> Self]

NextTree ==
    \/ \E p \in ArgPaths, a \in CatArgs, t \in TypeFlags : Register(p, a, t)
    \/ \E p \in ArgPaths, rec \in BOOLEAN : Unregister(p, rec)

SpecTree == Init /\ [][NextTree]_vars

\* The paths and directories the persistence runs register and unregister.
PersistPaths == {PA, PAB}

NextPersist ==
    \/ \E p \in PersistPaths : Register(p, StrArg("default"), "none")
    \/ \E p \in PersistPaths, rec \in BOOLEAN : Unregister(p, rec)
    \/ \E d \in TreeDirs : UnregisterAll(d)
    \/ CommitIndex
    \/ IndexInit

\* The persistence runs keep /root/a/b in the ignore list.
InitPersist == Init /\ ignore_list = {PAB}

SpecPersist == InitPersist /\ [][NextPersist]_vars

NextDelete ==
    \/ \E p \in PersistPaths : Register(p, StrArg("default"), "none")
    \/ \E d \in TreeDirs, unregister \in BOOLEAN : DeleteAll(d, unregister)
    \/ CommitIndex

SpecDelete == Init /\ [][NextDelete]_vars

\* The category arguments of the runs that add and drop categories: names in
\* and out of the table, and integers in and out of 0..(table length - 1).
CatArgsWide ==
    {StrArg("default"), StrArg("extra"), IntArg(0), IntArg(1), IntArg(-1)}

\* The ones those runs register with and drop.
CatArgsUsed == {StrArg("default"), StrArg("extra"), IntArg(-1)}
CatArgsDropped == {StrArg("default"), StrArg("extra")}

\* They keep at most this many entity objects alive.
MaxCatEnt == 3

\* A failed unregister can leave a children list longer than it found it, and
\* a repeated one longer still: the runs stop repeating at this length.
MaxChilds == 3

ShortLists == \A o \in DOMAIN childs : Len(childs[o]) <= MaxChilds

NextCat ==
    \/ \E p \in PersistPaths, a \in CatArgsUsed :
          Cardinality(DOMAIN ent) < MaxCatEnt /\ Register(p, a, "none")
    \/ \E p \in PersistPaths, rec \in BOOLEAN :
          ShortLists /\ Unregister(p, rec)
    \/ \E n \in CatNames : RegisterCategory(n)
    \/ \E a \in CatArgsDropped, unreg \in BOOLEAN, rec \in BOOLEAN :
          ShortLists /\ UnregisterCategory(a, unreg, rec)

\* These runs keep /root/a/b in the ignore list.
InitCat == Init /\ ignore_list = {PAB}

SpecCat == InitCat /\ [][NextCat]_vars

\* The runs that delete: entities are registered with the type found on the
\* file system, and deleted one by one, by policy and by category.
NextPolicy ==
    \/ \E p \in PersistPaths : Register(p, StrArg("default"), "none")
    \/ \E p \in PersistPaths, unregister \in BOOLEAN, rec \in BOOLEAN :
          Delete(p, unregister, rec)
    \/ \E d \in TreeDirs, unregister \in BOOLEAN : DeleteAll(d, unregister)
    \/ \E d \in TreeDirs, unregister \in BOOLEAN : DeleteRegistered(d, unregister)
    \/ \E d \in TreeDirs, deep \in BOOLEAN : DeleteUnregistered(d, deep)
    \/ \E unregister \in BOOLEAN, clear \in BOOLEAN, rec \in BOOLEAN :
          DeleteCategory(StrArg("default"), unregister, clear, rec)

SpecPolicy == Init /\ [][NextPolicy]_vars

\* The runs of the command line: one command after the other, each in a
\* process of its own.
NextCli == \E args \in CliArgs : Main(args)

\* main never fills the ignore list: every run has it empty.
InitCli == Init /\ ignore_list = {}

SpecCli == InitCli /\ [][NextCli]_vars

\* ------------------------------------------------------- what claims speak of
\* The places <<k, i>> of a category table at which o is a member.
Memberships(cats, o) ==
    {ki \in UNION {{<<k, i>> : i \in 1..Len(cats[k].members)} : k \in 1..Len(cats)} :
        cats[ki[1]].members[ki[2]] = o}

\* The categories (positions in the table) that hold o.
InCategories(cats, o) == {ki[1] : ki \in Memberships(cats, o)}

Members(cats) == UNION {Range(cats[k].members) : k \in 1..Len(cats)}

\* Path p is a strict descendant of path q.
StrictlyBelow(p, q) ==
    /\ Len(p) > Len(q)
    /\ \A i \in 1..Len(q) : p[i] = q[i]

\* A register call that gets past the category and type checks.
WellTyped(p, a, t) ==
    /\ find_category(categories, a).found
    /\ t = "none" => fs[p] # "none"

\* ------------------------------------------------------------------ claims
\* C1: after any sequence of register and unregister calls, every entity
\* reachable from the root is a member of exactly one category, exactly once,
\* and that category's position is the entity's category field.
C1_CategoryConsistency ==
    \A o \in Reach :
        /\ Cardinality(Memberships(categories, o)) = 1
        /\ \A ki \in Memberships(categories, o) : ki[1] - 1 = ent[o].category

\* C2: no two reachable entities have the same path, and register(p, ...)
\* fails with the already-registered error whenever a reachable entity
\* already has path p.
C2_PathsUnique ==
    /\ \A o1, o2 \in Reach : ent[o1].path = ent[o2].path => o1 = o2
    /\ \A p \in ArgPaths, a \in CatArgs, t \in TypeFlags :
          (WellTyped(p, a, t) /\ \E o \in Reach : ent[o].path = p)
              => index_register(Heap, fs, p, a, t).res = "AlreadyRegistered"

\* C3: unregister(D, recursive=true) of a registered directory D leaves no
\* category holding D or a non-ignored entity that was below D.
C3_RecursiveUnregisterStep ==
    (/\ last'.op = "unregister" /\ last'.res = "ok" /\ last'.id # 0
     /\ last'.flag = "true" /\ ent[last'.id].is_directory)
        => \A o \in {last'.id} \cup {x \in Below(childs, last'.id) :
                                        ent[x].path \notin ignore_list} :
              o \notin Members(categories')

\* C3: every recursive unregister step of a registered directory empties the
\* categories of the directory and of all that was below it.
C3_RecursiveUnregister == [][C3_RecursiveUnregisterStep]_vars

C7_Original ==
    \A p \in ArgPaths, a \in CatArgs, t \in TypeFlags :
        (find_category(categories, a).found /\ ~StrictlyBelow(p, RootPath))
            => index_register(Heap, fs, p, a, t).res = "Containment"

\* C7 amended: the same when the type of p is known (is_directory given, or p
\* exists on the file system); with no is_directory and p missing, the call
\* fails with the ambiguous-type error.  A call that fails either way leaves
\* the tree and the category members as they were.
C7_ContainmentOutcome ==
    \A p \in ArgPaths, a \in CatArgs, t \in TypeFlags :
        (find_category(categories, a).found /\ ~StrictlyBelow(p, RootPath))
            => index_register(Heap, fs, p, a, t).res =
                  IF t = "none" /\ fs[p] = "none" THEN "AmbiguousType"
                  ELSE "Containment"

C7_FailedCallStep ==
    (last'.op = "register" /\ last'.res \in {"Containment", "AmbiguousType"})
        => UNCHANGED <<ent, childs, categories>>

\* C7 (amended): the outcome of a register call outside the root is the
\* containment error for a known type and the ambiguous-type error otherwise,
\* and a failed register call changes neither tree nor categories.
C7_ContainmentGuard == [](C7_ContainmentOutcome) /\ [][C7_FailedCallStep]_vars

\* C7 witness: a register call has failed with the containment error.
C7_Witness == last.op = "register" /\ last.res = "Containment"

\* C8: unregister(D, recursive=false) of a registered directory D with
\* parent P removes D from P's children and from D's category, makes every
\* child of D a child of P with parent reference P, and leaves the children
\* and all below them in the category collections they were in.
C8_CollapseStep ==
    (/\ last'.op = "unregister" /\ last'.res = "ok" /\ last'.id # 0
     /\ last'.flag = "false" /\ ent[last'.id].is_directory)
        => LET D == last'.id
               P == last'.par
           IN  /\ D \notin Range(childs'[P])
               /\ D \notin Members(categories')
               /\ \A x \in Range(childs[D]) :
                     /\ x \in Range(childs'[P])
                     /\ ent'[x].parent = P
               /\ \A y \in Below(childs, D) :
                     InCategories(categories', y) = InCategories(categories, y)

\* C8: every non-recursive unregister step of a directory collapses it into
\* its parent as described above.
C8_Collapse == [][C8_CollapseStep]_vars

\* C9: no unregister call removes a registered entity whose path is in the
\* ignore list: a call that targets it changes nothing, and a call that
\* targets another entity leaves it reachable and in its category, while the
\* targeted entity is unregistered.
C9_IgnoreStep ==
    (last'.op = "unregister" /\ last'.res = "ok")
        => /\ last'.path \in ignore_list => UNCHANGED <<ent, childs, categories>>
           /\ \A o \in Reach :
                 ent[o].path \in ignore_list
                     => /\ o \in Below(childs', Self)
                        /\ InCategories(categories', o) = InCategories(categories, o)
                        /\ Cardinality(Memberships(categories', o))
                              = Cardinality(Memberships(categories, o))
           /\ last'.path \notin ignore_list
                 => last'.id \notin Below(childs', Self)

\* C9: every unregister step leaves ignore-listed entities reachable and in
\* their category.
C9_IgnoreImmunity == [][C9_IgnoreStep]_vars

\* C4: every member of every category is an entity reachable from the root,
\* held by exactly one children list of the tree, once, and no category holds
\* the same entity twice.
C4_MembersAreInTree ==
    \A m \in Members(categories) :
        /\ m \in Reach
        /\ Cardinality({di \in UNION {{<<d, i>> : i \in 1..Len(childs[d])} : d \in TreeDirs} :
                           childs[di[1]][di[2]] = m}) = 1
        /\ Cardinality(Memberships(categories, m)) = 1

\* C5: the parent reference of every entity of the tree is the directory
\* object of the tree (the Index in use, for the top level) whose children
\* list holds it.
C5_ParentIsHolder ==
    \A d \in TreeDirs : \A o \in Range(childs[d]) : ent[o].parent = d

\* C10: delete with policy ALL on a directory that exists returns normally,
\* removes no file system entry that is in the ignore list, and removes every
\* entry below the directory that is neither in the ignore list nor an
\* ancestor of a path in it.
C10_DeleteAllStep ==
    (last'.op = "delete_all" /\ fs[last'.path] = "dir")
        => /\ last'.res = "ok"
           /\ \A p \in ignore_list : fs'[p] = fs[p]
           /\ \A q \in FsPaths :
                 (/\ StrictlyBelow(q, last'.path)
                  /\ \A p \in ignore_list : q # p /\ ~StrictlyBelow(p, q))
                     => fs'[q] = "none"

\* C10: every delete-ALL step completes, keeps the ignore-listed entries and
\* removes the rest.
C10_DeleteAll == [][C10_DeleteAllStep]_vars

\* The category argument names a category of the table or is an integer in
\* 0..(number of categories - 1).
ValidCategoryArg(a) ==
    IF a.isint THEN a.idx \in 0..(Len(categories) - 1)
    ELSE \E k \in 1..Len(categories) : categories[k].name = a.name

\* C13: unregister_category on an existing category that has a member fails
\* with the non-empty-category error and changes nothing when
\* unregister_members is false; when it is true the call returns normally, no
\* entity that was a member is reachable from the root any more, and the
\* category has left the table.
C13_UnregisterCategory ==
    \A a \in CatArgsDropped, rec \in BOOLEAN :
        LET fc == find_category(categories, a)
            k == PyIndex(Len(categories), fc.idx)
        IN  (fc.found /\ categories[k].members # <<>>)
                => /\ LET r == unregister_category(Heap, a, FALSE, rec)
                      IN  r.res = "NonEmptyCategory" /\ r.h = Heap
                   /\ LET r == unregister_category(Heap, a, TRUE, rec)
                      IN  /\ r.res = "ok"
                          /\ \A m \in Range(categories[k].members) :
                                m \notin Below(r.h.ch, Self)
                          /\ \A j \in 1..Len(r.h.cats) :
                                r.h.cats[j].name # categories[k].name

\* C15: a register, unregister, register_category or unregister_category
\* call that ends with an error leaves the children lists, the parent
\* references, the category table and the member lists as they were.
C15_ErrorStep ==
    (/\ last'.op \in {"register", "unregister", "register_category",
                      "unregister_category"}
     /\ last'.res # "ok")
        => UNCHANGED <<ent, childs, categories>>

\* C15: every step of such a call that ends with an error changes nothing.
C15_AllOrNothing == [][C15_ErrorStep]_vars

\* C16: the category field of a reachable entity that is an index of the
\* table designates a category of the same name after any call, and is still
\* an index of the table.
C16_StableStep ==
    \A o \in Reach \cap Below(childs', Self) :
        ent[o].category \in 0..(Len(categories) - 1)
            => /\ ent'[o].category \in 0..(Len(categories') - 1)
               /\ categories'[ent'[o].category + 1].name
                     = categories[ent[o].category + 1].name

\* C16: category indices are stable over every step of register, unregister,
\* register_category and unregister_category.
C16_StableIndices == [][C16_StableStep]_vars

\* C17: register fails with the category-not-found error, changing nothing,
\* whenever the category argument is neither a name of the table nor an
\* integer in 0..(number of categories - 1); no reachable entity carries a
\* negative category index.
C17_CategoryValidation ==
    /\ \A p \in PersistPaths, a \in CatArgsWide, t \in TypeFlags :
          ~ValidCategoryArg(a)
              => LET r == index_register(Heap, fs, p, a, t)
                 IN  r.res = "CategoryNotFound" /\ r.h = Heap
    /\ \A o \in Reach : ent[o].category >= 0

\* C20: a register, unregister or unregister_category call, however it ends,
\* leaves every file and directory of the file system as it was.
C20_FsStep ==
    last'.op \in {"register", "unregister", "unregister_category"}
        => fs' = fs

\* C20: no step of register, unregister or unregister_category changes the
\* file system.
C20_FsUntouched == [][C20_FsStep]_vars

\* C20 witness: unregister_category has unregistered a member (and then
\* failed on taking it out of the member list a second time), /root/a is
\* registered, and the directories are still on the file system.
C20_Witness ==
    /\ last.op = "unregister_category"
    /\ last.res = "ValueError"
    /\ \E o \in Reach : ent[o].path = PA
    /\ fs[PA] = "dir" /\ fs[PAB] = "dir"

\* Every reachable entity is a member of the categories exactly once, and
\* nothing else is a member: what a sequence of register calls builds.
MembersMatchTree ==
    /\ Members(categories) = Reach
    /\ \A o \in Reach : Cardinality(Memberships(categories, o)) = 1

\* How many members of the category at position k of a table have path p.
MemberCount(e, cats, k, p) ==
    Cardinality({i \in 1..Len(cats[k].members) : e[cats[k].members[i]].path = p})

\* C11: loading the document that was just committed from an index built by
\* register calls gives a tree with the same paths, category fields and
\* children order at every level, and member lists that hold the same
\* entities (by path) as often as before the commit.
C11_RoundTripStep ==
    (/\ last.op = "commit" /\ MembersMatchTree
     /\ last'.op = "load" /\ last'.res = "ok")
        => /\ dump([e |-> ent', ch |-> childs', sh |-> shared',
                    cats |-> categories']) = doc
           /\ Len(categories') = Len(categories)
           /\ \A k \in 1..Len(categories) : \A p \in FsPaths :
                 MemberCount(ent', categories', k, p)
                     = MemberCount(ent, categories, k, p)

\* C11: every commit followed by a load is such a round trip.
C11_RoundTrip == [][C11_RoundTripStep]_vars

\* The descendants of d in depth-first pre-order, each once.
RECURSIVE PreOrder(_, _)
PreOrder(ch, list) ==
    IF list = <<>> THEN <<>>
    ELSE <<Head(list)>> \o PreOrder(ch, ch[Head(list)]) \o PreOrder(ch, Tail(list))

\* C19: walk() on a directory of the tree yields its descendants in
\* depth-first pre-order along the children lists, each exactly once.
C19_WalkPreOrder ==
    \A d \in TreeDirs : walk(ent, childs, d) = PreOrder(childs, childs[d])

\* Path p is directly inside path q.
DirectlyInside(p, q) == Len(p) = Len(q) + 1 /\ StrictlyBelow(p, q)

\* No reachable entity has path p.
Untracked(p) == \A o \in Reach : ent[o].path # p

\* C12: for a tracked directory D holding an untracked file u and a tracked
\* subdirectory S that holds an untracked file v, the policy UNREGISTERED on
\* D removes u and leaves v and S on disk, and UNREGISTERED_DEEP removes u and
\* v and leaves S; neither changes the tree or the category members.
C12_UnregisteredStep ==
    last'.op = "delete_unregistered"
        => \A S \in Reach : \A u, v \in FsPaths :
              (/\ last'.par \in Reach
               /\ ent[S].is_directory /\ fs[ent[S].path] = "dir"
               /\ DirectlyInside(ent[S].path, last'.path)
               /\ DirectlyInside(u, last'.path) /\ fs[u] = "file" /\ Untracked(u)
               /\ DirectlyInside(v, ent[S].path) /\ fs[v] = "file" /\ Untracked(v))
                  => /\ fs'[u] = "none"
                     /\ fs'[ent[S].path] = "dir"
                     /\ fs'[v] = IF last'.flag = "true" THEN "none" ELSE "file"
                     /\ UNCHANGED <<ent, childs, categories>>

\* C12: every step of the policies UNREGISTERED and UNREGISTERED_DEEP on such
\* a directory has that effect.
C12_UnregisteredPolicies == [][C12_UnregisteredStep]_vars

\* C14: delete_category removes the file system target of every entity that
\* was a member of the category and is not in the ignore list, whatever the
\* unregister and clear flags; with unregister set, these members are not
\* reachable from the root afterwards.  (Stated for an empty ignore list.)
C14_DeleteCategoryStep ==
    (last'.op = "delete_category" /\ last'.id # 0 /\ ignore_list = {})
        => \A m \in Range(categories[last'.id].members) :
              /\ fs'[ent[m].path] = "none"
              /\ last'.flag = "true" => m \notin Below(childs', Self)

\* C14: every delete_category step deletes (and, when asked, unregisters)
\* all members of the category.
C14_DeleteCategory == [][C14_DeleteCategoryStep]_vars

\* C18: a delete whose target is gone already returns normally: delete_self
\* of an entity whose file or directory is missing, and the four policies on
\* an existing directory whose children are its direct entries, one of them
\* with a missing target.  (Stated for an empty ignore list and an index in
\* which the members of the categories are the entities of the tree.)
C18_MissingTargetStep ==
    (ignore_list = {} /\ MembersMatchTree)
        => /\ (/\ last'.op = "delete" /\ last'.id # 0
               /\ fs[last'.path] = "none")
                  => last'.res = "ok"
           /\ (/\ last'.op \in {"delete_all", "delete_registered",
                                "delete_unregistered"}
               /\ fs[last'.path] = "dir"
               /\ \A c \in Range(childs[last'.par]) :
                     DirectlyInside(ent[c].path, last'.path)
               /\ \E c \in Range(childs[last'.par]) : fs[ent[c].path] = "none")
                  => last'.res = "ok"

\* C18: no delete step on a missing target raises.
C18_MissingTargetIsSoft == [][C18_MissingTargetStep]_vars

\* C22: a freshly initialised Index has itself as parent and category -1; its
\* category table holds 'default'; its only child is a file entity for the
\* backing document, which is a member of 'default'; the Index itself is a
\* member of no category.
C22_FreshIndex ==
    (last.op = "init" /\ last.res = "ok")
        => /\ index_fields(Self).parent = Self
           /\ index_fields(Self).category = -1
           /\ \E k \in 1..Len(categories) : categories[k].name = "default"
           /\ Len(childs[Self]) = 1
           /\ LET db == childs[Self][1]
              IN  /\ ent[db].path = DbFile
                  /\ ~ent[db].is_directory
                  /\ ent[db].parent = Self
                  /\ \E k \in 1..Len(categories) :
                        /\ categories[k].name = "default"
                        /\ db \in Range(categories[k].members)
           /\ Self \notin Members(categories)

\* C22 witness: an Index initialised with no backing file on disk, holding
\* nothing but the entity of its backing document.
C22_Witness ==
    /\ last.op = "init" /\ last.res = "ok"
    /\ fs[DbFile] = "none"
    /\ DOMAIN ent = {1}

\* C23: for every path strictly under the root, isregistered is true and find
\* returns an entity with that path exactly when some entity reachable from
\* the root has that path; otherwise isregistered is false and find fails.
C23_LookupMatchesTree ==
    \A p \in ArgPaths :
        StrictlyBelow(p, RootPath)
            => LET tracked == \E o \in Reach : ent[o].path = p
                   found == find(ent, childs, Self, p)
               IN  /\ isregistered(ent, childs, Self, p) = tracked
                   /\ tracked => (found # 0 /\ ent[found].path = p)
                   /\ ~tracked => found = 0

\* C25: unregister_all on a directory keeps every child whose path is in the
\* ignore list in the children list and in its category, with the children it
\* had, and takes every other descendant (those below a kept child excepted)
\* out of the tree and out of the categories.
C25_UnregisterAllStep ==
    (last'.op = "unregister_all" /\ last'.res = "ok")
        => LET d == last'.par
               kept == {c \in Range(childs[d]) : ent[c].path \in ignore_list}
           IN  /\ \A c \in kept :
                     /\ c \in Range(childs'[d])
                     /\ InCategories(categories', c) = InCategories(categories, c)
                     /\ childs'[c] = childs[c]
               /\ \A o \in Below(childs, d) \ (kept \cup UNION {Below(childs, c) : c \in kept}) :
                     /\ o \notin Below(childs', Self)
                     /\ o \notin Members(categories')

\* C25: every unregister_all step is skip-and-preserve for the ignore list.
C25_SkipAndPreserve == [][C25_UnregisterAllStep]_vars

\* C21: the policy REGISTERED on a directory removes the file system target of
\* every child that is not in the ignore list, a child directory with all
\* below it, and leaves every other file system entry as it was; with the
\* unregister flag, the children list afterwards holds ignore-listed children
\* only.  (Stated for an index in which the members of the categories are the
\* entities of the tree.)
C21_RegisteredStep ==
    (last'.op = "delete_registered" /\ MembersMatchTree)
        => LET d == last'.par
               gone == {ent[c].path : c \in {x \in Range(childs[d]) :
                                               ent[x].path \notin ignore_list}}
           IN  /\ \A q \in FsPaths :
                     IF \E p \in gone : q = p \/ StrictlyBelow(q, p)
                     THEN fs'[q] = "none"
                     ELSE fs'[q] = fs[q]
               /\ last'.flag = "true"
                     => \A c \in Range(childs'[d]) : ent'[c].path \in ignore_list

\* C21: every step of the policy REGISTERED has that effect.
C21_DeleteRegistered == [][C21_RegisteredStep]_vars

\* C24: the policies UNREGISTERED and UNREGISTERED_DEEP on a directory remove
\* the file system target of no entity reachable from the root and no path of
\* the ignore list, and with every tracked directory present on disk they do
\* not fail on a child directory that is not a direct entry of its parent's
\* directory.
C24_UnregisteredSafeStep ==
    last'.op = "delete_unregistered"
        => /\ \A o \in Reach : fs'[ent[o].path] = fs[ent[o].path]
           /\ \A p \in ignore_list : fs'[p] = fs[p]
           /\ (\A o \in Reach : ent[o].is_directory => fs[ent[o].path] = "dir")
                 => last'.res # "ValueError"

\* C24: every step of the two policies spares what is tracked and what is in
\* the ignore list.
C24_UnregisteredSpares == [][C24_UnregisteredSafeStep]_vars

\* The core operation a command line stands for: `directory` and its aliases
\* register a directory, `file` a file, `path` an entity of the type --type
\* says (left to the file system without it); the -nr option switches
\* recursion off; the other options are passed as they were parsed.
ExpectedCall(args) ==
    IF args.command = "register"
    THEN IF args.kind = "category"
         THEN Invoke("register_category", <<>>, args.name, "none", FALSE, FALSE, FALSE)
         ELSE Invoke("register", args.path, args.category,
                     IF args.kind \in {"directory", "dir", "folder", "fldr"} THEN "true"
                     ELSE IF args.kind = "file" THEN "false"
                     ELSE IF args.type = "directory" THEN "true"
                     ELSE IF args.type = "file" THEN "false"
                     ELSE "none",
                     FALSE, FALSE, FALSE)
    ELSE IF args.command = "unregister"
    THEN IF args.kind = "category"
         THEN Invoke("unregister_category", <<>>, args.name, "none",
                     args.wm, args.nr, FALSE)
         ELSE Invoke("unregister", args.path, "", "none", args.nr, FALSE, FALSE)
    ELSE IF args.kind = "category"
    THEN Invoke("delete_category", <<>>, args.name, "none",
                args.unregister, args.clear, args.nr)
    ELSE IF args.kind = "path"
    THEN Invoke("delete", args.path, "", "none", args.unregister, args.nr, FALSE)
    ELSE IF args.kind = "registered"
    THEN Invoke("delete_registered", <<>>, "", "none", args.unregister, FALSE, FALSE)
    ELSE IF args.kind = "unregistered"
    THEN Invoke("delete_unregistered", <<>>, "", "none", args.deep, FALSE, FALSE)
    ELSE Invoke("delete_all", <<>>, "", "none", FALSE, FALSE, FALSE)

\* C27: for every sub-command spelling the parser accepts, main calls the core
\* operation the spelling stands for, with the parsed values as arguments.
C27_Dispatch == \A args \in CliArgs : main_call(args) = ExpectedCall(args)

\* C27: a run of main whose operation returned leaves the backing document
\* written from the Index the operation left.
C27_CommitStep ==
    last'.op = "main" /\ last'.res = "ok"
        => /\ fs'[DbFile] = "file"
           /\ doc' = commit([e |-> ent', ch |-> childs', sh |-> shared',
                             cats |-> categories'])

\* C27: main dispatches every accepted spelling to its core operation and
\* commits when the operation returns.
C27_CliDispatch == [](C27_Dispatch) /\ [][C27_CommitStep]_vars

\* C26: a run of main that ends in an error leaves the backing document as it
\* was before the run, neither rewritten nor removed; a run that completes
\* leaves the document written from the Index the command left.
C26_LifecycleStep ==
    last'.op = "main"
        => /\ last'.res # "ok" => doc' = doc /\ fs'[DbFile] = fs[DbFile]
           /\ last'.res = "ok"
                 => doc' = commit([e |-> ent', ch |-> childs', sh |-> shared',
                                   cats |-> categories'])

\* C26: every run of the command line keeps the document intact on failure and
\* writes it on success.
C26_CommitOnSuccessOnly == [][C26_LifecycleStep]_vars

====
